---- MODULE Spec2Model ----
(***************************************************************************)
(* Model of backend/audio_bridge.py: the real-time filter bridge.          *)
(*                                                                         *)
(* Two execution contexts are modelled:                                    *)
(*   - the asyncio event-loop thread (main, restart_stream, ws_handler),   *)
(*     whose coroutines only interleave at awaits that really suspend, so  *)
(*     it is one sequential process with a program counter pc;             *)
(*   - the PortAudio callback thread (audio_cb), program counter cbpc,     *)
(*     which interleaves with the event-loop thread statement by statement.*)
(*                                                                         *)
(* Floating point values are fixed-point with one decimal digit: the       *)
(* record [nan |-> FALSE, v |-> n] stands for n/10, and NaN is kept as a   *)
(* value of its own because float() and np.clip let it through.            *)
(***************************************************************************)
EXTENDS Integers, Sequences, FiniteSets, TLC

(* ---------------------------- bounds ---------------------------------- *)
\* number of cascades the control plane enqueues in one behaviour
MaxEnq == 2

(* ------------------------ program constants --------------------------- *)
SAMPLE_RATE == 44100

(* ------------------------ fixed-point floats -------------------------- *)
F(n) == [nan |-> FALSE, v |-> n]
NaN == [nan |-> TRUE, v |-> 0]
\* a whole number as a float
Whole(n) == F(n * 10)

FAdd(a, b) == IF a.nan \/ b.nan THEN NaN ELSE F(a.v + b.v)
FSub(a, b) == IF a.nan \/ b.nan THEN NaN ELSE F(a.v - b.v)
FMul(a, b) == IF a.nan \/ b.nan THEN NaN ELSE F((a.v * b.v) \div 10)
FDiv(a, b) == IF a.nan \/ b.nan THEN NaN ELSE F((a.v * 10) \div b.v)
\* comparisons with NaN are false, as in IEEE 754
FLt(a, b) == ~a.nan /\ ~b.nan /\ a.v < b.v
FGt(a, b) == FLt(b, a)
FLe(a, b) == ~a.nan /\ ~b.nan /\ a.v <= b.v

\* Python's builtin max(a, b) / min(a, b): the first argument is kept unless
\* the second compares strictly greater / smaller
PyMax(a, b) == IF FGt(b, a) THEN b ELSE a
PyMin(a, b) == IF FLt(b, a) THEN b ELSE a

\* np.clip without its upper limit
np_clip_lower(x, lo, hi) ==
    IF x.nan THEN NaN
    ELSE IF x.v < lo.v THEN lo ELSE x

\* np.clip(x, lo, hi): NaN propagates
np_clip(x, lo, hi) ==
    IF x.nan THEN NaN
    ELSE IF x.v < lo.v THEN lo ELSE IF x.v > hi.v THEN hi ELSE x

(* --------------------------- design_sos ------------------------------- *)
FilterTypes == {"lowpass", "highpass", "bandpass", "notch"}

\* signal.iirfilter(N, Wn, btype=..., output="sos"): the library's result is
\* determined by its arguments, which is what the record keeps.  Wn is the
\* sequence of critical frequencies, each a pair <<edge, nyq>> standing for
\* edge/nyq.
iirfilter(N, Wn, btype) == [N |-> N, Wn |-> Wn, btype |-> btype]

\* the library rejects critical frequencies outside 0 < Wn < 1
iirfilter_raises(Wn) ==
    \E i \in 1..Len(Wn) :
        \/ Wn[i][1].nan
        \/ Wn[i][1].v <= 0
        \/ Wn[i][1].v >= Wn[i][2].v

nyq == F((SAMPLE_RATE * 10) \div 2)

\* design_edges without the 30 Hz floor of the bandwidth
design_edges_nofloor(params) ==
    LET cutoff == np_clip(params.cutoff, Whole(20), FSub(nyq, Whole(500)))
        q == np_clip(params.q, F(1), Whole(20))
        bandwidth == FDiv(cutoff, q)
        low == PyMax(Whole(20), FSub(cutoff, FDiv(bandwidth, Whole(2))))
        high == PyMin(FSub(nyq, Whole(500)), FAdd(cutoff, FDiv(bandwidth, Whole(2))))
    IN  [cutoff |-> cutoff, q |-> q, bandwidth |-> bandwidth,
         low |-> low, high |-> high]

design_edges(params) ==
    LET cutoff == np_clip(params.cutoff, Whole(20), FSub(nyq, Whole(500)))
        q == np_clip(params.q, F(1), Whole(20))
        bandwidth == PyMax(Whole(30), FDiv(cutoff, q))
        low == PyMax(Whole(20), FSub(cutoff, FDiv(bandwidth, Whole(2))))
        high == PyMin(FSub(nyq, Whole(500)), FAdd(cutoff, FDiv(bandwidth, Whole(2))))
    IN  [cutoff |-> cutoff, q |-> q, bandwidth |-> bandwidth,
         low |-> low, high |-> high]

design_sos(params) ==
    LET e == design_edges(params)
    IN  IF params.filterType \in {"bandpass", "notch"}
        THEN iirfilter(4, << <<e.low, nyq>>, <<e.high, nyq>> >>,
                       IF params.filterType = "bandpass"
                       THEN "bandpass" ELSE "bandstop")
        ELSE IF params.filterType \in {"lowpass", "highpass"}
        THEN iirfilter(4, << <<e.cutoff, nyq>> >>, params.filterType)
        ELSE iirfilter(2, << <<F(1), F(20)>>, <<F(19), F(20)>> >>, "bandpass")

\* design_sos raises when the library rejects the edges it is handed
design_raises(params) == iirfilter_raises(design_sos(params).Wn)

(* ------------------------ library stand-ins --------------------------- *)
\* number of second-order sections of a designed cascade
sections(sos) == IF sos.btype \in {"bandpass", "bandstop"} THEN sos.N
                 ELSE (sos.N + 1) \div 2

\* The delay-line state is kept as its shape and its mean magnitude
\* (np.mean(np.abs(zi))), the only things audio_cb computes from it.
Zi(n, level) == [none |-> FALSE, n |-> n, level |-> level]
ZiNone == [none |-> TRUE, n |-> 0, level |-> F(0)]

\* signal.sosfilt_zi(sos): steady-state step response of the cascade
sosfilt_zi(sos) ==
    Zi(sections(sos),
       IF sos.btype = "lowpass" THEN F(9)
       ELSE IF sos.btype = "highpass" THEN F(10)
       ELSE IF sos.btype = "bandstop" THEN F(4)
       ELSE F(20))

\* sample values a filtered block can take, and levels of the state the
\* filter leaves behind (signal.sosfilt is not computed, any of these results
\* is possible)
FilterOut == {F(-20), F(5)}
FilterLevels == {F(2), F(10)}

(* ----------------------------- JSON ----------------------------------- *)
Num(n)  == [t |-> "num", n |-> n, s |-> "", b |-> FALSE]
Str(s)  == [t |-> "str", n |-> 0, s |-> s, b |-> FALSE]
Bool(b) == [t |-> "bool", n |-> 0, s |-> "", b |-> b]
Null    == [t |-> "null", n |-> 0, s |-> "", b |-> FALSE]
Absent  == [t |-> "absent", n |-> 0, s |-> "", b |-> FALSE]

\* float(value): numbers and booleans convert, "nan" parses to NaN, any
\* other string of the model and None raise
float_raises(value) ==
    \/ value.t = "null"
    \/ value.t = "str" /\ value.s # "nan"
float(value) ==
    IF value.t = "num" THEN F(value.n)
    ELSE IF value.t = "bool" THEN (IF value.b THEN Whole(1) ELSE Whole(0))
    ELSE NaN

\* str(value) never raises
str(value) ==
    IF value.t = "str" THEN value.s
    ELSE IF value.t = "bool" THEN (IF value.b THEN "True" ELSE "False")
    ELSE IF value.t = "null" THEN "None"
    ELSE "<number>"

\* bool(value) never raises: zero, the empty string and None are false
bool(value) ==
    IF value.t = "bool" THEN value.b
    ELSE IF value.t = "num" THEN value.n # 0
    ELSE IF value.t = "str" THEN value.s # ""
    ELSE FALSE

ParamKeys == <<"filterType", "cutoff", "q", "filterGain", "outputGain", "bypass">>
\* the action branches without those of the AI requests
KnownActions_noAI == {"setDevices", "listDevices"}

KnownActions == {"setDevices", "listDevices", "transcribe", "tts",
                 "chatAgent", "voiceToVoice"}

\* a JSON object with the keys the handler looks at
Obj(action, input, output, filterType, cutoff, q, filterGain, outputGain, bypass) ==
    [action |-> action, input |-> input, output |-> output,
     filterType |-> filterType, cutoff |-> cutoff, q |-> q,
     filterGain |-> filterGain, outputGain |-> outputGain, bypass |-> bypass]
Empty == Obj(Absent, Absent, Absent, Absent, Absent, Absent, Absent, Absent, Absent)

\* a message: text that json.loads rejects, a JSON value that is not an
\* object, or a JSON object
Msg(kind, payload) == [kind |-> kind, payload |-> payload]

\* the messages of the model, by what they exercise
MalformedMsg == Msg("malformed", Empty)
NonObjectMsg == Msg("nonobject", Empty)
EmptyMsg == Msg("object", Empty)
UnknownActionMsg == Msg("object", [Empty EXCEPT !.action = Str("foo")])
ListDevicesMsg == Msg("object", [Empty EXCEPT !.action = Str("listDevices")])
ChatMsg == Msg("object", [Empty EXCEPT !.action = Str("chatAgent")])
TranscribeMsg == Msg("object", [Empty EXCEPT !.action = Str("transcribe")])
TtsMsg == Msg("object", [Empty EXCEPT !.action = Str("tts")])
VoiceToVoiceMsg == Msg("object", [Empty EXCEPT !.action = Str("voiceToVoice")])
SetDevicesMsg == Msg("object", [Empty EXCEPT !.action = Str("setDevices")])
SetDevicesHwMsg ==
    Msg("object", [Empty EXCEPT !.action = Str("setDevices"),
                                !.input = Str("hw"), !.output = Str("hw")])
NotchMsg ==
    Msg("object", [Empty EXCEPT !.filterType = Str("notch"),
                                !.cutoff = Num(600), !.q = Num(100)])
BadTypeMsg == Msg("object", [Empty EXCEPT !.filterType = Str("foo")])
BadQMsg == Msg("object", [Empty EXCEPT !.cutoff = Num(600), !.q = Str("abc")])
BypassMsg ==
    Msg("object", [Empty EXCEPT !.filterGain = Num(200), !.outputGain = Num(20),
                                !.bypass = Bool(TRUE)])
NanGainMsg == Msg("object", [Empty EXCEPT !.outputGain = Str("nan")])
LowpassMsg == Msg("object", [Empty EXCEPT !.filterType = Str("lowpass")])

\* what the control channel delivers in each specification
CtlMessages == {MalformedMsg, NonObjectMsg, EmptyMsg, UnknownActionMsg,
                ListDevicesMsg, ChatMsg, TranscribeMsg, TtsMsg, VoiceToVoiceMsg,
                SetDevicesMsg, BadTypeMsg, BadQMsg}
AudioMessages == {BypassMsg, NanGainMsg, NotchMsg, LowpassMsg, SetDevicesHwMsg}
RestartMessages == {SetDevicesMsg, SetDevicesHwMsg, NotchMsg}

\* a message that reaches the parameter path of ws_handler
IsObject(m) == m.kind = "object"
ActionOf(m) == IF m.payload.action.t = "str" THEN m.payload.action.s ELSE "<none>"
ReachesParams(m) == IsObject(m) /\ ActionOf(m) \notin KnownActions
HasParamKey(m) == \E i \in 1..Len(ParamKeys) : m.payload[ParamKeys[i]].t # "absent"

(* ----------------------------- state ---------------------------------- *)
VARIABLES
    state,          \* FilterState: the six filter parameters
    coef_queue,     \* SimpleQueue of designed cascades (each tagged with its
                    \* position in the enqueue order)
    current_sos,    \* the active cascade
    zi,             \* the delay-line state
    current_stream, \* 0 for None, else the id of the stream object
    started,        \* ids of the stream objects that are started (active)
    stream_lock,    \* asyncio.Lock: TRUE when held
    INPUT_DEVICE, OUTPUT_DEVICE,
    pc,             \* position of the event-loop thread
    caller,         \* who is inside restart_stream: "boot", "fallback", "ws"
    rargs,          \* arguments of the running restart_stream call
    msg,            \* the message being handled
    key,            \* index of the parameter loop of ws_handler
    resp,           \* responses sent for msg, in order
    alive,          \* the message loop of ws_handler is still running
    inputs,         \* the messages the control channel can deliver
    cbpc,           \* position of the audio callback thread
    indata, y, outdata, \* a sample of the input block, of the block being
                    \* computed and of the output block (the callback works
                    \* element-wise on the 512 samples)
    used,           \* the parameter values the running callback has read
    hist            \* history the properties refer to

vars == <<state, coef_queue, current_sos, zi, current_stream, started,
          stream_lock, INPUT_DEVICE, OUTPUT_DEVICE, pc, caller, rargs,
          msg, key, resp, alive, inputs, cbpc, indata, y, outdata, used, hist>>

\* FilterState() defaults
FilterState == [filterType |-> "highpass", cutoff |-> Whole(80), q |-> F(7),
                filterGain |-> Whole(0), outputGain |-> Whole(1),
                bypass |-> FALSE]

NoSos == iirfilter(0, <<>>, "none")
NoMsg == Msg("none", Empty)
NoUse == [bypass |-> FALSE, filterGain |-> Whole(0), outputGain |-> Whole(1)]
NoItem == [sos |-> NoSos, n |-> 0]
\* sample values the input device delivers
Samples == {F(-15), F(5)}

\* the module-level globals other than state, once the module is loaded
Loaded ==
    /\ coef_queue = <<>>
    /\ current_sos = NoSos
    /\ zi = ZiNone
    /\ current_stream = 0
    /\ started = {}
    /\ stream_lock = FALSE
    /\ INPUT_DEVICE = Str("pulse")
    /\ OUTPUT_DEVICE = Str("VirtualMicPDS")
    /\ caller = "boot"
    /\ rargs = <<Str("pulse"), Str("VirtualMicPDS")>>
    /\ msg = NoMsg
    /\ key = 1
    /\ resp = <<>>
    /\ alive = TRUE
    /\ cbpc = "idle"
    /\ indata = F(0)
    /\ y = F(0)
    /\ outdata = F(0)
    /\ used = NoUse
    /\ hist = [enqCount |-> 0,       \* cascades enqueued so far
               instLog |-> <<>>,     \* tags of the cascades installed, in order
               lastEnq |-> NoItem,   \* the last cascade enqueued since the end
                                     \* of the previous drain (n = 0: none)
               drained |-> NoItem,   \* lastEnq as of the end of this drain
               sosAtStart |-> NoSos, \* current_sos when this block started
               ziAtStart |-> ZiNone, \* zi when this block started
               gets |-> 0,           \* cascades dequeued by this drain
               fresh |-> FALSE,      \* a drain has ended since the last message
                                     \* was handled
               snaps |-> {},         \* the parameter values this block could
                                     \* have taken from a completed update
               preState |-> FilterState, \* state when msg was received
               preEnq |-> 0,         \* enqCount when msg was received
               prior |-> 0,          \* current_stream when the last restart began
               restart |-> "none"]   \* outcome of the last restart_stream call

\* the state before main() runs
Boot ==
    /\ Loaded
    /\ state = FilterState
    /\ pc = "main"

CbVars == <<cbpc, indata, y, outdata, used>>
StreamVars == <<current_stream, started, stream_lock, INPUT_DEVICE, OUTPUT_DEVICE>>
WsVars == <<msg, key, resp, alive, inputs>>

(* ------------------------- responses ---------------------------------- *)
\* one websocket.send(json.dumps(...)); 'snap' is the state snapshot of a
\* successful parameter update
Resp(ok, action, snap) == [ok |-> ok, action |-> action, snap |-> snap]
Send(r) == resp' = Append(resp, r)

(* ---------------------- restart_stream / main ------------------------- *)
\* main(): the boot call restart_stream(INPUT_DEVICE, OUTPUT_DEVICE)
MainBoot ==
    /\ pc = "main"
    /\ caller' = "boot"
    /\ rargs' = <<INPUT_DEVICE, OUTPUT_DEVICE>>
    /\ pc' = "r_acq"
    /\ UNCHANGED <<state, coef_queue, current_sos, zi, StreamVars, WsVars,
                   CbVars, hist>>

\* async with stream_lock: entered only when the lock is free
RestartAcquire ==
    /\ pc = "r_acq"
    /\ ~stream_lock
    /\ stream_lock' = TRUE
    /\ pc' = "r_stop"
    /\ UNCHANGED <<state, coef_queue, current_sos, zi, current_stream, started,
                   INPUT_DEVICE, OUTPUT_DEVICE, caller, rargs, WsVars, CbVars,
                   hist>>

\* a restart that leaves the old stream running
stop_close_skipped(s) == started

\* current_stream.stop(); current_stream.close(): the stream is no longer
\* started
stop_close(s) == started \ {s}

\* a stop() that returns while the callback is still running
RestartStop_nowait ==
    /\ pc = "r_stop"
    /\ hist' = [hist EXCEPT !.prior = current_stream]
    /\ IF current_stream # 0
       THEN /\ started' = stop_close(current_stream)
            /\ current_stream' = 0
       ELSE UNCHANGED <<started, current_stream>>
    /\ pc' = "r_prime"
    /\ UNCHANGED <<state, coef_queue, current_sos, zi, stream_lock,
                   INPUT_DEVICE, OUTPUT_DEVICE, caller, rargs, WsVars, CbVars>>

\* if current_stream: stop(); close(); current_stream = None.
\* stop() returns only once the running callback has finished.
RestartStop ==
    /\ pc = "r_stop"
    /\ hist' = [hist EXCEPT !.prior = current_stream]
    /\ IF current_stream # 0
       THEN /\ cbpc = "idle"
            /\ started' = stop_close(current_stream)
            /\ current_stream' = 0
       ELSE UNCHANGED <<started, current_stream>>
    /\ pc' = "r_prime"
    /\ UNCHANGED <<state, coef_queue, current_sos, zi, stream_lock,
                   INPUT_DEVICE, OUTPUT_DEVICE, caller, rargs, WsVars, CbVars>>

\* a restart that keeps the lock when it fails
RestartFinish_keeps_lock(ok, inDev) ==
    /\ stream_lock' = ~ok
    /\ hist' = [hist EXCEPT !.restart = IF ok THEN "ok" ELSE "failed"]
    /\ IF caller = "ws"
       THEN /\ Send(Resp(ok, "setDevices", FilterState))
            /\ pc' = "sent"
            /\ UNCHANGED <<caller, rargs>>
       ELSE /\ UNCHANGED resp
            /\ IF ok
               THEN pc' = "idle" /\ UNCHANGED <<caller, rargs>>
               ELSE IF caller = "boot"
               THEN /\ pc' = "r_acq"
                    /\ caller' = "fallback"
                    /\ rargs' = <<inDev, Str("pulse")>>
               ELSE pc' = "exited" /\ UNCHANGED <<caller, rargs>>

\* what the caller of restart_stream does with its result: main retries once
\* with the "pulse" output and gives up after that, ws_handler answers the
\* setDevices request.  The lock is released on the way out.
RestartFinish(ok, inDev) ==
    /\ stream_lock' = FALSE
    /\ hist' = [hist EXCEPT !.restart = IF ok THEN "ok" ELSE "failed"]
    /\ IF caller = "ws"
       THEN /\ Send(Resp(ok, "setDevices", FilterState))
            /\ pc' = "sent"
            /\ UNCHANGED <<caller, rargs>>
       ELSE /\ UNCHANGED resp
            /\ IF ok
               THEN pc' = "idle" /\ UNCHANGED <<caller, rargs>>
               ELSE IF caller = "boot"
               THEN /\ pc' = "r_acq"
                    /\ caller' = "fallback"
                    /\ rargs' = <<inDev, Str("pulse")>>
               ELSE pc' = "exited" /\ UNCHANGED <<caller, rargs>>

\* prime_filter(): current_sos = design_sos(state); zi = sosfilt_zi(...)
prime_filter ==
    /\ current_sos' = design_sos(state)
    /\ zi' = sosfilt_zi(design_sos(state))

\* INPUT_DEVICE = ...; OUTPUT_DEVICE = ...; prime_filter()
RestartPrime ==
    /\ pc = "r_prime"
    /\ INPUT_DEVICE' = rargs[1]
    /\ OUTPUT_DEVICE' = rargs[2]
    /\ IF design_raises(state)
       THEN /\ RestartFinish(FALSE, rargs[1])
            /\ UNCHANGED <<current_sos, zi>>
       ELSE /\ prime_filter
            /\ pc' = "r_open"
            /\ UNCHANGED <<stream_lock, caller, rargs, resp, hist>>
    /\ UNCHANGED <<state, coef_queue, current_stream, started, msg, key,
                   alive, inputs, CbVars>>

\* the id of the stream object sd.Stream(...) builds: one that no live stream
\* and not the stream closed by this restart carries
NewId == CHOOSE s \in 1..(Cardinality(started) + 2) :
            /\ s \notin started /\ s # hist.prior
            /\ \A o \in 1..(s - 1) : o \in started \/ o = hist.prior

\* open_stream whose failed start still leaves the new stream assigned
open_stream_keeps(outcome) ==
    IF outcome = "ok"
    THEN /\ started' = started \cup {NewId}
         /\ current_stream' = NewId
    ELSE IF outcome = "start_raises"
    THEN /\ current_stream' = NewId
         /\ UNCHANGED started
    ELSE UNCHANGED <<started, current_stream>>

\* current_stream = open_stream(INPUT_DEVICE, OUTPUT_DEVICE): the constructor
\* or stream.start() can raise, and then no stream is started and nothing is
\* assigned; otherwise the new stream is started
open_stream(outcome) ==
    IF outcome = "ok"
    THEN /\ started' = started \cup {NewId}
         /\ current_stream' = NewId
    ELSE UNCHANGED <<started, current_stream>>

RestartOpen ==
    /\ pc = "r_open"
    /\ \E outcome \in {"ok", "start_raises", "ctor_raises"} :
          /\ open_stream(outcome)
          /\ RestartFinish(outcome = "ok", INPUT_DEVICE)
    /\ UNCHANGED <<state, coef_queue, current_sos, zi, INPUT_DEVICE,
                   OUTPUT_DEVICE, msg, key, alive, inputs, CbVars>>

(* ---------------------------- ws_handler ------------------------------ *)
\* the fields of FilterState that audio_cb reads
Gains(s) == [bypass |-> s.bypass, filterGain |-> s.filterGain,
             outputGain |-> s.outputGain]

\* the response is out: the loop goes back to waiting for the next message
WsNext ==
    /\ pc = "sent"
    /\ pc' = "idle"
    /\ msg' = NoMsg
    /\ resp' = <<>>
    /\ key' = 1
    /\ caller' = "ws"
    /\ rargs' = <<INPUT_DEVICE, OUTPUT_DEVICE>>
    /\ hist' = [hist EXCEPT !.preState = FilterState, !.preEnq = 0]
    /\ UNCHANGED <<state, coef_queue, current_sos, zi, StreamVars, alive,
                   inputs, CbVars>>

\* an exception that is not caught: nothing is sent and the loop ends
Raise_escapes ==
    /\ UNCHANGED resp
    /\ pc' = "idle"
    /\ alive' = FALSE

\* except Exception as exc: send {"ok": False, "error": str(exc)}; the loop
\* goes on with the next message
Raise ==
    /\ Send(Resp(FALSE, "<none>", FilterState))
    /\ pc' = "sent"
    /\ UNCHANGED alive

\* payload.get(name, default) for the device names
GetDev(m, name, default) ==
    IF m.payload[name].t = "absent" THEN default ELSE m.payload[name]

\* the keys of the parameter loop that the payload carries, from index i on
PresentFrom(m, i) == {j \in i..Len(ParamKeys) : m.payload[ParamKeys[j]].t # "absent"}
NextKey(m, i) == CHOOSE j \in PresentFrom(m, i) : \A o \in PresentFrom(m, i) : j <= o

\* the loop skips the keys that are not in the payload
EnterLoop(m, i) ==
    IF PresentFrom(m, i) = {}
    THEN pc' = "design" /\ key' = Len(ParamKeys)
    ELSE pc' = "merge" /\ key' = NextKey(m, i)

\* async for message in websocket: the next message m arrives; then
\* json.loads(message), payload.get("action") and the action branches
Recv(m) ==
    /\ pc = "idle"
    /\ alive
    /\ ReachesParams(m) => hist.enqCount < MaxEnq
    /\ msg' = m
    /\ hist' = [hist EXCEPT !.preState = state, !.preEnq = hist.enqCount,
                            !.fresh = FALSE,
                            !.snaps = IF cbpc = "idle" THEN @
                                      ELSE @ \cup {Gains(state)}]
    /\ IF ~IsObject(m)
       THEN /\ Raise
            /\ UNCHANGED <<caller, rargs, key>>
       ELSE IF ActionOf(m) = "setDevices"
       THEN /\ caller' = "ws"
            /\ rargs' = <<GetDev(m, "input", INPUT_DEVICE),
                          GetDev(m, "output", OUTPUT_DEVICE)>>
            /\ pc' = "r_acq"
            /\ UNCHANGED <<resp, alive, key>>
       ELSE IF ActionOf(m) \in KnownActions
       THEN \* listDevices and the AI requests: the outside call succeeds
            \* or raises, and the branch answers either way
            /\ \E ok \in BOOLEAN : Send(Resp(ok, ActionOf(m), FilterState))
            /\ pc' = "sent"
            /\ UNCHANGED <<caller, rargs, alive, key>>
       ELSE /\ EnterLoop(m, 1)
            /\ UNCHANGED <<caller, rargs, resp, alive>>
    /\ UNCHANGED <<state, coef_queue, current_sos, zi, StreamVars, inputs,
                   CbVars>>

\* the conversion the loop applies to the value of a key
coerce_raises(k, value) ==
    k \in {"cutoff", "q", "filterGain", "outputGain"} /\ float_raises(value)
coerce(k, value) ==
    IF k \in {"cutoff", "q", "filterGain", "outputGain"} THEN float(value)
    ELSE IF k = "filterType" THEN str(value)
    ELSE bool(value)

\* one iteration of: for key in (...): if key in payload: ... setattr(...)
Merge ==
    /\ pc = "merge"
    /\ LET k == ParamKeys[key]
           value == msg.payload[k]
       IN  IF coerce_raises(k, value)
           THEN /\ Raise
                /\ UNCHANGED <<state, key>>
           ELSE /\ state' = [state EXCEPT ![k] = coerce(k, value)]
                /\ EnterLoop(msg, key + 1)
                /\ UNCHANGED <<resp, alive>>
    /\ UNCHANGED <<coef_queue, current_sos, zi, StreamVars, caller, rargs,
                   msg, inputs, CbVars, hist>>

\* coef_queue.put(design_sos(state)); send {"ok": True, "state": ...}
Design ==
    /\ pc = "design"
    /\ IF design_raises(state)
       THEN /\ Raise
            /\ UNCHANGED <<coef_queue, hist>>
       ELSE LET item == [sos |-> design_sos(state), n |-> hist.enqCount + 1]
            IN  /\ coef_queue' = Append(coef_queue, item)
                /\ Send(Resp(TRUE, "<none>", state))
                /\ pc' = "sent"
                /\ hist' = [hist EXCEPT !.enqCount = @ + 1, !.lastEnq = item]
                /\ UNCHANGED alive
    /\ UNCHANGED <<state, current_sos, zi, StreamVars, caller, rargs, msg, key,
                   inputs, CbVars>>

(* ------------------------------ audio_cb ------------------------------ *)
RECURSIVE Pow10(_)
Pow10(e) == IF e = 0 THEN 1 ELSE 10 * Pow10(e - 1)

\* db_to_linear(db) = 10 ** (db / 20), for gains that are whole multiples of
\* 20 dB (the only ones the messages of the model carry)
db_to_linear(db) ==
    IF db.nan THEN NaN
    ELSE LET e == db.v \div 200
         IN  IF e >= 0 THEN Whole(Pow10(e)) ELSE F(10 \div Pow10(0 - e))

\* PortAudio calls the callback of a started stream with the next input block
CbStart ==
    /\ cbpc = "idle"
    /\ started # {}
    /\ \E x \in Samples : indata' = x
    /\ cbpc' = "drain"
    /\ hist' = [hist EXCEPT !.sosAtStart = current_sos, !.ziAtStart = zi,
                            !.snaps = {Gains(IF pc = "merge"
                                             THEN hist.preState ELSE state)}]
    /\ UNCHANGED <<state, coef_queue, current_sos, zi, StreamVars, pc, caller,
                   rargs, WsVars, y, outdata, used>>

\* a loop that dequeues without testing the queue first
CbDrainCheck_untested ==
    /\ cbpc = "drain"
    /\ \/ /\ cbpc' = "bypass"
          /\ hist' = [hist EXCEPT !.drained = hist.lastEnq, !.lastEnq = NoItem]
       \/ /\ cbpc' = "get"
          /\ UNCHANGED hist
    /\ UNCHANGED <<state, coef_queue, current_sos, zi, StreamVars, pc, caller,
                   rargs, WsVars, indata, y, outdata, used>>

\* while not coef_queue.empty(): the loop test
CbDrainCheck ==
    /\ cbpc = "drain"
    /\ IF coef_queue = <<>>
       THEN /\ cbpc' = "bypass"
            /\ hist' = [hist EXCEPT !.drained = hist.lastEnq, !.lastEnq = NoItem,
                                    !.fresh = (pc \in {"idle", "sent"})]
       ELSE /\ cbpc' = "get"
            /\ UNCHANGED hist
    /\ UNCHANGED <<state, coef_queue, current_sos, zi, StreamVars, pc, caller,
                   rargs, WsVars, indata, y, outdata, used>>

\* scale = np.mean(np.abs(zi)) / (np.mean(np.abs(new_zi)) + 1e-10)
zi_scale(old, new) ==
    IF new.level.v = 0
    THEN (IF old.level.v = 0 THEN F(0) ELSE Whole(1000))
    ELSE FDiv(old.level, new.level)

\* the factor without the final min(scale, 1.0)
zi_factor_clip_only(old, new_zi) ==
    np_clip(zi_scale(old, new_zi), F(1), Whole(10))

\* scale = np.clip(scale, 0.1, 10.0); the factor is min(scale, 1.0)
zi_factor(old, new_zi) ==
    LET scale == np_clip(zi_scale(old, new_zi), F(1), Whole(10))
    IN  PyMin(scale, Whole(1))

\* the delay-line state installed with a new cascade
smoothed_zi(old, new_sos) ==
    LET new_zi == sosfilt_zi(new_sos)
    IN  IF old.none THEN new_zi
        ELSE Zi(new_zi.n, FMul(new_zi.level, zi_factor(old, new_zi)))

\* a queue that hands out its newest item first
get_newest(q) == q[Len(q)]

\* the item get_nowait() hands out: the oldest of the queue
get_nowait(q) == Head(q)

\* the loop body: new_sos = coef_queue.get_nowait() ... zi = new_zi
CbGet ==
    /\ cbpc = "get"
    /\ coef_queue # <<>>
    /\ LET item == get_nowait(coef_queue)
       IN  /\ coef_queue' = SelectSeq(coef_queue, LAMBDA e : e.n # item.n)
           /\ current_sos' = item.sos
           /\ zi' = smoothed_zi(zi, item.sos)
           /\ hist' = [hist EXCEPT !.instLog = Append(@, item.n), !.gets = @ + 1]
    /\ cbpc' = "drain"
    /\ UNCHANGED <<state, StreamVars, pc, caller, rargs, WsVars, indata, y,
                   outdata, used>>

\* a bypass branch that primes the delay-line state again
CbBypass_reprimes ==
    /\ cbpc = "bypass"
    /\ used' = [used EXCEPT !.bypass = state.bypass]
    /\ IF state.bypass
       THEN y' = indata /\ cbpc' = "output" /\ zi' = sosfilt_zi(current_sos)
       ELSE UNCHANGED <<y, zi>> /\ cbpc' = "filter"
    /\ hist' = [hist EXCEPT !.drained = NoItem, !.sosAtStart = NoSos,
                            !.ziAtStart = ZiNone, !.gets = 0]
    /\ UNCHANGED <<state, coef_queue, current_sos, StreamVars, pc, caller,
                   rargs, WsVars, indata, outdata>>

\* x = indata[:, 0]; if state.bypass: y = x.copy()
CbBypass ==
    /\ cbpc = "bypass"
    /\ used' = [used EXCEPT !.bypass = state.bypass]
    /\ IF state.bypass
       THEN y' = indata /\ cbpc' = "output"
       ELSE UNCHANGED y /\ cbpc' = "filter"
    /\ hist' = [hist EXCEPT !.drained = NoItem, !.sosAtStart = NoSos,
                            !.ziAtStart = ZiNone, !.gets = 0]
    /\ UNCHANGED <<state, coef_queue, current_sos, zi, StreamVars, pc, caller,
                   rargs, WsVars, indata, outdata>>

\* y, zi = signal.sosfilt(current_sos, x, zi=zi); y *= db_to_linear(filterGain)
CbFilter ==
    /\ cbpc = "filter"
    /\ \E yf \in FilterOut, lv \in FilterLevels :
          /\ y' = FMul(yf, db_to_linear(state.filterGain))
          /\ zi' = Zi(zi.n, lv)
    /\ used' = [used EXCEPT !.filterGain = state.filterGain]
    /\ cbpc' = "output"
    /\ UNCHANGED <<state, coef_queue, current_sos, StreamVars, pc, caller,
                   rargs, WsVars, indata, outdata, hist>>

\* an output stage that skips the output gain
output_sample_nogain(ys, gain) == np_clip(ys, Whole(-1), Whole(1))

\* the sample written out: y * float(state.outputGain), clipped
output_sample(ys, gain) == np_clip(FMul(ys, gain), Whole(-1), Whole(1))

\* y *= float(state.outputGain); outdata[:, 0] = np.clip(y, -1.0, 1.0)
CbOutput ==
    /\ cbpc = "output"
    /\ used' = [used EXCEPT !.outputGain = state.outputGain]
    /\ outdata' = output_sample(y, state.outputGain)
    /\ cbpc' = "return"
    /\ UNCHANGED <<state, coef_queue, current_sos, zi, StreamVars, pc, caller,
                   rargs, WsVars, indata, y, hist>>

\* the callback returns: its locals are gone, the output block is handed to
\* the device
CbReturn ==
    /\ cbpc = "return"
    /\ cbpc' = "idle"
    /\ indata' = F(0)
    /\ y' = F(0)
    /\ outdata' = F(0)
    /\ used' = NoUse
    /\ hist' = [hist EXCEPT !.snaps = {}]
    /\ UNCHANGED <<state, coef_queue, current_sos, zi, StreamVars, pc, caller,
                   rargs, WsVars>>

(* --------------------------- specification ---------------------------- *)
Next ==
    \/ MainBoot
    \/ RestartAcquire
    \/ RestartStop
    \/ RestartPrime
    \/ RestartOpen
    \/ \E m \in inputs : Recv(m)
    \/ WsNext
    \/ Merge
    \/ Design
    \/ CbStart
    \/ CbDrainCheck
    \/ CbGet
    \/ CbBypass
    \/ CbFilter
    \/ CbOutput
    \/ CbReturn

\* the control plane: every kind of message, the default parameters
Init == Boot /\ inputs = CtlMessages
Spec == Init /\ [][Next]_vars

\* the audio path: parameter updates that change gains, bypass and cascade
InitAudio == Boot /\ inputs = AudioMessages
SpecAudio == InitAudio /\ [][Next]_vars

\* the stream lifecycle: device changes
InitRestart == Boot /\ inputs = RestartMessages
SpecRestart == InitRestart /\ [][Next]_vars

\* The stream lifecycle with its scheduling: the event loop runs the restart
\* it has begun, and a started callback returns.  stop() ends the calls of
\* the callback, so of the two steps open once a block has returned, the
\* next block and the end of stop(), the latter is taken eventually.
RestartFairness ==
    /\ WF_vars(RestartAcquire)
    /\ SF_vars(RestartStop)
    /\ WF_vars(RestartPrime)
    /\ WF_vars(RestartOpen)
    /\ WF_vars(CbDrainCheck \/ CbGet \/ CbBypass \/ CbFilter \/ CbOutput
                \/ CbReturn)
SpecRestartFair == SpecRestart /\ RestartFairness

(* ---------------- design_sos on its own (pure function) --------------- *)
\* parameters handed to design_sos: in and out of the clamped domain
DesignCutoffs == {Whole(10), Whole(20), Whole(60), Whole(80), Whole(1000),
                  Whole(21550), Whole(30000)}
DesignQs == {F(0), F(1), F(7), Whole(10), Whole(20), Whole(50)}
DesignInputs ==
    {[FilterState EXCEPT !.filterType = t, !.cutoff = c, !.q = qq] :
        t \in FilterTypes \cup {"foo"}, c \in DesignCutoffs, qq \in DesignQs}

InitDesign ==
    /\ Loaded
    /\ inputs = {}
    /\ pc = "designer"
    /\ state \in DesignInputs

\* design_sos(state) is computed and kept, as prime_filter() does
DesignApply ==
    /\ pc = "designer"
    /\ ~design_raises(state)
    /\ prime_filter
    /\ pc' = "designed"
    /\ UNCHANGED <<state, coef_queue, StreamVars, caller, rargs, WsVars,
                   CbVars, hist>>

NextDesign == DesignApply
SpecDesign == InitDesign /\ [][NextDesign]_vars

(* ============================ properties ============================== *)
\* no restart_stream call is in progress and the control channel is served
Settled == pc \in {"idle", "sent"}

\* C1 as stated: never two active streams, and exactly one Running stream,
\* the one current_stream refers to, once the restart requests have settled
C1_Original ==
    /\ Cardinality(started) <= 1
    /\ Settled => (Cardinality(started) = 1 /\ current_stream \in started)

\* C1 amended: never two active streams; once the restart requests have
\* settled, the stream of the last request is the only one Running if that
\* request succeeded, and no stream is Running (current_stream is None) if it
\* failed
C1_Serialized ==
    /\ Cardinality(started) <= 1
    /\ Settled => IF hist.restart = "ok"
                  THEN current_stream # 0 /\ started = {current_stream}
                  ELSE current_stream = 0 /\ started = {}

\* a setDevices request has replaced a running stream by a new one
C1_Witness ==
    /\ pc = "sent"
    /\ ActionOf(msg) = "setDevices"
    /\ hist.restart = "ok"
    /\ hist.prior # 0
    /\ current_stream # hist.prior

\* a message of the parameter path has been answered with a failure
ParamFailure ==
    /\ pc = "sent"
    /\ ReachesParams(msg)
    /\ Len(resp) >= 1
    /\ ~resp[1].ok

\* C2: a parameter update answered with {ok: false} leaves every field of
\* state as it was and enqueues no cascade
C2_FailureLeavesState ==
    ParamFailure => (state = hist.preState /\ hist.enqCount = hist.preEnq)

\* C3: at the end of the drain the active cascade is the last one enqueued
\* since the previous drain, or unchanged if none was; the cascades installed
\* are installed in enqueue order, each one at most once
C3_DrainLatest ==
    /\ cbpc = "bypass" =>
          current_sos = IF hist.drained.n # 0 THEN hist.drained.sos
                        ELSE hist.sosAtStart
    /\ \A i \in 1..Len(hist.instLog) :
          /\ hist.instLog[i] \in 1..hist.enqCount
          /\ \A j \in 1..(i - 1) : hist.instLog[j] < hist.instLog[i]

\* a drain has dequeued two pending cascades and ended on the newer one
C3_Witness ==
    /\ cbpc = "bypass"
    /\ hist.gets >= 2
    /\ hist.drained.n = hist.enqCount

Unrecognized(m) ==
    \/ m.kind \in {"malformed", "nonobject"}
    \/ ReachesParams(m) /\ ~HasParamKey(m)

\* C5: an unrecognized message is answered with {ok: false} and changes
\* neither state nor the queue
C5_UnrecognizedRejected ==
    (pc = "sent" /\ Unrecognized(msg)) =>
        /\ Len(resp) = 1
        /\ ~resp[1].ok
        /\ state = hist.preState
        /\ hist.enqCount = hist.preEnq

\* C6: state.filterType is always one of the four known types
C6_FilterTypeKnown == state.filterType \in FilterTypes

\* restart_stream has just failed: the error has reached main's handler or
\* the setDevices branch of ws_handler
RestartJustFailed ==
    /\ hist.restart = "failed"
    /\ \/ pc = "exited"
       \/ pc = "r_acq" /\ caller = "fallback"
       \/ pc = "sent" /\ ActionOf(msg) = "setDevices"

\* C7: after a failed restart no stream is active, current_stream is None,
\* and a setDevices request is answered {ok: false, action: setDevices}
C7_FailureStops ==
    RestartJustFailed =>
        /\ current_stream = 0
        /\ started = {}
        /\ pc = "sent" => resp = <<Resp(FALSE, "setDevices", FilterState)>>

\* a setDevices request failed while a stream was Running
C7_Witness ==
    /\ RestartJustFailed
    /\ pc = "sent"
    /\ hist.prior # 0

\* C8: every message gets exactly one response, sent before the loop takes
\* the next message, and the loop never ends
C8_OneResponse ==
    /\ alive
    /\ pc = "sent" => Len(resp) = 1
    /\ pc # "sent" => resp = <<>>

\* an error raised in the parameter loop became the failure response
C8_Witness ==
    /\ pc = "sent"
    /\ msg = BadQMsg
    /\ resp = <<Resp(FALSE, "<none>", FilterState)>>

\* C9: every sample written to the output block lies in [-1.0, 1.0]
C9_Clipped ==
    cbpc = "return" => (~outdata.nan /\ outdata.v >= -10 /\ outdata.v <= 10)

\* the parameters of the scenario: notch, 60 Hz, q = 10
IsNotch60(params) ==
    /\ params.filterType = "notch"
    /\ params.cutoff = Whole(60)
    /\ params.q = Whole(10)

C11_EdgesInDomain ==
    (pc \in {"designer", "designed"} /\ state.filterType \in FilterTypes) =>
        LET Wn == design_sos(state).Wn
        IN  /\ ~design_raises(state)
            /\ pc = "designed" => current_sos = design_sos(state)
            /\ IF state.filterType \in {"bandpass", "notch"}
               THEN /\ Len(Wn) = 2
                    /\ FLe(Whole(20), Wn[1][1])
                    /\ FLt(Wn[1][1], Wn[2][1])
                    /\ FLe(Wn[2][1], FSub(nyq, Whole(500)))
               ELSE /\ Len(Wn) = 1
                    /\ FLt(F(0), Wn[1][1])
                    /\ FLt(Wn[1][1], Wn[1][2])

\* a band-pass designed from a cutoff above Nyquist and a q of zero
C11_Witness ==
    /\ pc = "designed"
    /\ state.filterType = "bandpass"
    /\ state.cutoff = Whole(30000)
    /\ state.q = F(0)
    /\ current_sos.Wn[1][1] = Whole(20)
    /\ current_sos.Wn[2][1] = FSub(nyq, Whole(500))

\* the requests answered by an outside call: device listing and the AI ones
OutsideActions == {"listDevices", "transcribe", "tts", "chatAgent", "voiceToVoice"}
OutsideRequest(m) == IsObject(m) /\ ActionOf(m) \in OutsideActions

\* C12: a transcribe, tts, chatAgent, voiceToVoice or listDevices request,
\* answered with success or with failure, leaves the filter parameters, the
\* hot-swap queue, the active cascade, the delay-line state, the current
\* stream and the recorded device pair unchanged
C12_OutsideRequestsFrame ==
    /\ []((pc = "sent" /\ OutsideRequest(msg)) =>
            /\ state = hist.preState
            /\ hist.enqCount = hist.preEnq)
    /\ [][(pc = "idle" /\ pc' = "sent" /\ OutsideRequest(msg')) =>
            UNCHANGED <<state, coef_queue, current_sos, zi, current_stream,
                        started, INPUT_DEVICE, OUTPUT_DEVICE>>]_vars

\* a failed voiceToVoice request has been answered while a stream runs and
\* a cascade is pending
C12_Witness ==
    /\ pc = "sent"
    /\ msg = VoiceToVoiceMsg
    /\ ~resp[1].ok
    /\ current_stream # 0
    /\ coef_queue # <<>>

\* the factor the next install of the drain is about to apply
PendingFactor == zi_factor(zi, sosfilt_zi(get_nowait(coef_queue).sos))

\* C13: the factor that multiplies the freshly primed state when a cascade
\* is installed over an existing delay-line state lies in [0.1, 1.0]
C13_FactorBounded ==
    (cbpc = "get" /\ coef_queue # <<>> /\ ~zi.none) =>
        /\ FLe(F(1), PendingFactor)
        /\ FLe(PendingFactor, Whole(1))

\* a cascade is about to be installed with a factor strictly inside the range
C13_Witness ==
    /\ cbpc = "get"
    /\ coef_queue # <<>>
    /\ ~zi.none
    /\ FLt(F(1), PendingFactor)
    /\ FLt(PendingFactor, Whole(1))

\* C14: audio_cb never acquires stream_lock, and every dequeue it attempts
\* after the non-empty test finds an item: the only consumer of the queue is
\* the one callback, so get_nowait() neither fails on an empty queue nor waits
C14_DequeueNeverWaits ==
    /\ [](cbpc = "get" => coef_queue # <<>>)
    /\ [][cbpc' # cbpc => stream_lock' = stream_lock]_vars

\* the callback is about to dequeue while restart_stream holds the lock
C14_Witness ==
    /\ cbpc = "get"
    /\ coef_queue # <<>>
    /\ stream_lock
    /\ pc = "r_stop"

\* C15: when the drain finds several cascades pending, the delay-line state
\* it leaves installed is the one it would have installed had only the most
\* recent of them been pending
C15_DrainAsLatestOnly ==
    (cbpc = "bypass" /\ hist.gets >= 2) =>
        zi = smoothed_zi(hist.ziAtStart, current_sos)

\* C16: when restart_stream reaches prime_filter() the previous stream has
\* been stopped and closed and the new one is not started, so the writes of
\* prime_filter to the active cascade and the delay-line state never overlap
\* an executing audio callback
C16_PrimeBetweenBlocks ==
    pc = "r_prime" =>
        /\ cbpc = "idle"
        /\ started = {}
        /\ current_stream = 0

\* prime_filter() is about to run in a restart that stopped a running stream
C16_Witness ==
    /\ pc = "r_prime"
    /\ caller = "ws"
    /\ hist.prior # 0
    /\ hist.instLog # <<>>

\* C17: a block that finds no update pending leaves the active cascade
\* unchanged; the only write to the delay-line state is the one of sosfilt,
\* so the state the next block starts from is the one this block produced;
\* a bypass block with no update pending leaves both unchanged
C17_NoUpdateKeepsFilter ==
    /\ []((cbpc = "bypass" /\ hist.gets = 0) =>
            /\ current_sos = hist.sosAtStart
            /\ zi = hist.ziAtStart)
    /\ [][(cbpc' # cbpc /\ cbpc # "get") =>
            /\ current_sos' = current_sos
            /\ cbpc # "filter" => zi' = zi]_vars
    /\ [][(cbpc' = cbpc /\ pc # "r_prime") =>
            /\ current_sos' = current_sos
            /\ zi' = zi]_vars

\* a drain found nothing pending and the block goes the bypass way, with a
\* delay-line state left by an earlier filtered block
C17_Witness ==
    /\ cbpc = "bypass"
    /\ hist.gets = 0
    /\ state.bypass
    /\ zi.level = F(2)

\* restart_stream has returned to its caller
RestartReturned == pc \in {"idle", "sent", "exited"}

\* C18: a failed restart_stream leaves stream_lock free; every later call
\* (the boot fallback, a further setDevices) finds the lock free, acquires
\* it and runs to completion, so no restart waits forever
C18_LockReleased ==
    /\ [](RestartJustFailed => ~stream_lock)
    /\ [](pc = "r_acq" => ~stream_lock)
    /\ (pc = "r_acq") ~> RestartReturned

\* a restart requested after a failed one holds the lock
C18_Witness ==
    /\ hist.restart = "failed"
    /\ pc = "r_stop"
    /\ stream_lock

\* the values of bypass, filterGain and outputGain that stood before or
\* after a merge at some time during the block that is returning
BlockSnapshots ==
    hist.snaps \cup (IF pc = "merge" THEN {} ELSE {Gains(state)})

\* C19: every block is processed with bypass, filterGain and outputGain
\* taken from one and the same set of parameters, the one before or the one
\* after an update, never a mix of the two
C19_OneSnapshot ==
    cbpc = "return" =>
        \E s \in BlockSnapshots :
            /\ used.bypass = s.bypass
            /\ ~used.bypass => used.filterGain = s.filterGain
            /\ used.outputGain = s.outputGain

\* C20: whenever the hot-swap queue is empty and a block has drained it
\* since the last control message was handled, the active cascade is the
\* design of the current filter parameters
C20_CascadeMatchesState ==
    (hist.fresh /\ coef_queue = <<>> /\ pc \in {"idle", "sent"}) =>
        current_sos = design_sos(state)

====
